---- MODULE Spec2Model ----
(***************************************************************************)
(* A model of src/solarsystem.js: the start-up script (context, shaders,   *)
(* program, sphere mesh, buffers, camera and listeners, first render), the *)
(* keyboard and mouse callbacks, and the frame callback render().          *)
(*                                                                         *)
(* Numbers are fixed point, so that every step of the script is exact:     *)
(*   positions     in units of 0.0002  (speed 0.2 = 1000, y 2 = 10000,     *)
(*                                      z 15 = 75000)                      *)
(*   yaw and pitch in units of 0.002 rad (one unit per pixel of movement)  *)
(*   cos and sin   in thousandths                                          *)
(*   time          in units of 0.01                                        *)
(*   sizes, orbit and spin speeds, colours in tenths                       *)
(* IEEE rounding of the doubles is not modelled.  Matrices are kept as the *)
(* list of gl-matrix calls that builds them, in call order.                *)
(*                                                                         *)
(* JavaScript runs every callback to completion, so the script's top level *)
(* steps are never interleaved with a callback and each callback is one    *)
(* action.                                                                 *)
(***************************************************************************)
EXTENDS Integers, Sequences, FiniteSets, TLC

VARIABLES
    host,       \* what the browser gives: the context and the shader results
    pc,         \* position of the start-up script, or of createSphere
    alerts,     \* number of alert() dialogs shown
    console,    \* console.error entries, in order
    setupOps,   \* names of the gl calls issued by the start-up code, in order
    sphere,     \* lengths of the three typed arrays of `sphere`
    listening,  \* the three event listeners are registered
    camera,     \* the camera object
    keys,       \* the keys object
    time,       \* the time variable
    scheduled,  \* pending requestAnimationFrame callbacks
    frame,      \* the steps of the last render() call, in order
    call,       \* createSphere's arguments and loop counters
    mesh        \* createSphere's three arrays

vars == <<host, pc, alerts, console, setupOps, sphere, listening, camera,
          keys, time, scheduled, frame, call, mesh>>

appVars == <<host, alerts, console, setupOps, sphere, listening, camera,
             keys, time, scheduled, frame>>

----------------------------------------------------------------------------
(* Bounds of the model *)

\* render() is called at most this many times (the first call included)
MaxTime == 3
\* yaw stays within MaxLook mouse steps of 0 (a step is 1000 px = 2 rad)
MaxLook == 1
\* createSphere is run for segments 1 .. MaxSegments
MaxSegments == 5

\* radius arguments tried for createSphere
Radii == {1, 2, 3}

\* (movementX, movementY) of the mouse events
MouseDeltas == {<<1000, 2000>>, <<-1000, -2000>>}
\* MouseEvent.buttons bit masks: none, primary, secondary, primary + secondary
ButtonMasks == {0, 1, 2, 3}

\* KeyboardEvent.key values delivered in Spec, and in SpecKeys
MainKeyIds == {"w", "W", "q", "r", "R"}
AllKeyIds == {"w", "s", "a", "d", "q", "e", "r", "D", "x"}

----------------------------------------------------------------------------
(* Library functions *)

\* String.prototype.toLowerCase on the key identifiers used
ToLowerCase(k) ==
    CASE k = "W" -> "w"
      [] k = "R" -> "r"
      [] k = "D" -> "d"
      [] OTHER -> k

\* The names the keys object can get
KeyNames == {ToLowerCase(k) : k \in MainKeyIds \cup AllKeyIds}

Abs(i) == IF i < 0 THEN -i ELSE i

\* Math.cos and Math.sin in thousandths, for angles that are multiples of
\* 1000 units (2 rad)
CosMilli(a) ==
    CASE Abs(a) = 0 -> 1000
      [] Abs(a) = 1000 -> -416
      [] Abs(a) = 2000 -> -654
      [] Abs(a) = 3000 -> 960
      [] Abs(a) = 4000 -> -146

SinAbsMilli(a) ==
    CASE a = 0 -> 0
      [] a = 1000 -> 909
      [] a = 2000 -> -757
      [] a = 3000 -> -279
      [] a = 4000 -> 989

SinMilli(a) == IF a < 0 THEN -SinAbsMilli(-a) ELSE SinAbsMilli(a)

\* Uint16Array stores each element modulo 2^16
ToUint16(i) == i % 65536

----------------------------------------------------------------------------
(* createSphere (lines 91-126) *)

\* segments in `const sphere = createSphere(1, 24)`
Segments == 24

\* x, y or z of the unit-sphere point of (lat, lon): cosPhi*sinTheta,
\* cosTheta, sinPhi*sinTheta with theta = lat*PI/segments and
\* phi = lon*2*PI/segments, kept as the term it is
UnitCoord(axis, lat, lon, segments) == <<axis, lat, lon, segments>>

\* radius * c
Scaled(radius, c) == <<radius, c>>

EmptyMesh == [positions |-> <<>>, normals |-> <<>>, indices |-> <<>>]

\* `lat <= segments` and `lon <= segments` of the vertex loops: off by one
VertexLoopExclusive(i, segments) == i < segments

\* `lat <= segments` and `lon <= segments` of the vertex loops
VertexLoopContinues(i, segments) == i <= segments

\* `lat < segments` and `lon < segments` of the index loops
IndexLoopContinues(i, segments) == i < segments

\* the body of the inner vertex loop
PushVertex(m, radius, segments, lat, lon) ==
    LET x == UnitCoord("x", lat, lon, segments)
        y == UnitCoord("y", lat, lon, segments)
        z == UnitCoord("z", lat, lon, segments)
    IN  [m EXCEPT !.positions = @ \o <<Scaled(radius, x), Scaled(radius, y),
                                       Scaled(radius, z)>>,
                  !.normals = @ \o <<x, y, z>>]

\* the body of the inner index loop
PushQuad(m, segments, lat, lon) ==
    LET first == lat * (segments + 1) + lon
        second == first + segments + 1
    IN  [m EXCEPT !.indices = @ \o <<first, second, first + 1,
                                     second, second + 1, first + 1>>]

\* the inner vertex loop, from lon on
RECURSIVE VertexRow(_, _, _, _, _)
VertexRow(m, radius, segments, lat, lon) ==
    IF ~VertexLoopContinues(lon, segments) THEN m
    ELSE VertexRow(PushVertex(m, radius, segments, lat, lon),
                   radius, segments, lat, lon + 1)

\* the inner index loop, from lon on
RECURSIVE IndexRow(_, _, _, _)
IndexRow(m, segments, lat, lon) ==
    IF ~IndexLoopContinues(lon, segments) THEN m
    ELSE IndexRow(PushQuad(m, segments, lat, lon), segments, lat, lon + 1)

\* the return statement: Float32Array, Float32Array and Uint16Array
TypedArrays(m) ==
    [positions |-> m.positions,
     normals |-> m.normals,
     indices |-> [i \in 1..Len(m.indices) |-> ToUint16(m.indices[i])]]

SphereLengths(m) ==
    [positions |-> Len(m.positions), normals |-> Len(m.normals),
     indices |-> Len(m.indices)]

(* createSphere run one pass of an outer loop at a time *)

\* a call of createSphere by `caller`, at the start of its first loop
Call(caller, radius, segments) ==
    [caller |-> caller, radius |-> radius, segments |-> segments, lat |-> 0]

IdleCall == Call("none", 0, 0)

\* one pass of the outer vertex loop
VertexIteration ==
    /\ pc = "vertices"
    /\ VertexLoopContinues(call.lat, call.segments)
    /\ mesh' = VertexRow(mesh, call.radius, call.segments, call.lat, 0)
    /\ call' = [call EXCEPT !.lat = @ + 1]
    /\ UNCHANGED <<pc, appVars>>

\* the end of the outer vertex loop; `let lat = 0` of the first index loop
VertexLoopExit ==
    /\ pc = "vertices"
    /\ ~VertexLoopContinues(call.lat, call.segments)
    /\ pc' = "indices"
    /\ call' = [call EXCEPT !.lat = 0]
    /\ UNCHANGED <<mesh, appVars>>

\* one pass of the outer index loop
IndexIteration ==
    /\ pc = "indices"
    /\ IndexLoopContinues(call.lat, call.segments)
    /\ mesh' = IndexRow(mesh, call.segments, call.lat, 0)
    /\ call' = [call EXCEPT !.lat = @ + 1]
    /\ UNCHANGED <<pc, appVars>>

\* the end of the outer index loop, and the return statement
SphereReturn ==
    /\ pc = "indices"
    /\ ~IndexLoopContinues(call.lat, call.segments)
    /\ pc' = "returned"
    /\ mesh' = TypedArrays(mesh)
    /\ UNCHANGED <<call, appVars>>

----------------------------------------------------------------------------
(* Camera and input (lines 150-165, 196-205) *)

\* `const speed = 0.2`, in position units
speed == 1000

\* the factor 0.002 of the mousemove handler, in angle units
MouseFactor == 1

\* the object literal of lines 152 and 165: x 0, y 2, z 15, pitch 0, yaw 0
InitialCamera == [x |-> 0, y |-> 10000, z |-> 75000, pitch |-> 0, yaw |-> 0]

\* resetCamera that keeps the orientation
resetCameraPositionOnly(c) == [c EXCEPT !.x = 0, !.y = 10000, !.z = 75000]

\* resetCamera(): camera = { x: 0, y: 2, z: 15, pitch: 0, yaw: 0 }
resetCamera(c) == InitialCamera

\* `const keys = {}`: a key that was never set reads as undefined, which is
\* falsy like false
NoKeys == [k \in KeyNames |-> FALSE]

\* keys[name] as a condition
Pressed(ks, name) == ks[name]

\* keydown: keys[e.key.toLowerCase()] = true
KeyDownHandler(ks, k) == [ks EXCEPT ![ToLowerCase(k)] = TRUE]

\* a keyup listener that releases every key
KeyUpClearsAll(ks, k) == NoKeys

\* keyup: keys[e.key.toLowerCase()] = false
KeyUpHandler(ks, k) == [ks EXCEPT ![ToLowerCase(k)] = FALSE]

\* `e.buttons === 1`
DragActive(buttons) == buttons = 1

\* the mousemove listener
MouseMoveHandler(c, buttons, dx, dy) ==
    IF DragActive(buttons)
    THEN [c EXCEPT !.yaw = @ + dx * MouseFactor, !.pitch = @ - dy * MouseFactor]
    ELSE c

\* right * speed and forward * speed, for right and forward in thousandths
Times(milli, s) == (milli * s) \div 1000

\* the w branch with the two axes swapped
MoveWSwapped(c, forward, right) ==
    [c EXCEPT !.x = @ - Times(forward, speed), !.z = @ + Times(right, speed)]

\* w: camera.x += right * speed; camera.z -= forward * speed
MoveW(c, forward, right) ==
    [c EXCEPT !.x = @ + Times(right, speed), !.z = @ - Times(forward, speed)]

\* s: camera.x -= right * speed; camera.z += forward * speed
MoveS(c, forward, right) ==
    [c EXCEPT !.x = @ - Times(right, speed), !.z = @ + Times(forward, speed)]

\* a: camera.x -= forward * speed; camera.z -= right * speed
MoveA(c, forward, right) ==
    [c EXCEPT !.x = @ - Times(forward, speed), !.z = @ - Times(right, speed)]

\* d: camera.x += forward * speed; camera.z += right * speed
MoveD(c, forward, right) ==
    [c EXCEPT !.x = @ + Times(forward, speed), !.z = @ + Times(right, speed)]

\* q: camera.y += speed
MoveQ(c) == [c EXCEPT !.y = @ + speed]

\* e: camera.y -= speed
MoveE(c) == [c EXCEPT !.y = @ - speed]

\* lines 196-205: the seven if statements, in order
CameraUpdate(c, ks) ==
    LET forward == CosMilli(c.yaw)
        right == SinMilli(c.yaw)
        c1 == IF Pressed(ks, "w") THEN MoveW(c, forward, right) ELSE c
        c2 == IF Pressed(ks, "s") THEN MoveS(c1, forward, right) ELSE c1
        c3 == IF Pressed(ks, "a") THEN MoveA(c2, forward, right) ELSE c2
        c4 == IF Pressed(ks, "d") THEN MoveD(c3, forward, right) ELSE c3
        c5 == IF Pressed(ks, "q") THEN MoveQ(c4) ELSE c4
        c6 == IF Pressed(ks, "e") THEN MoveE(c5) ELSE c5
    IN  IF Pressed(ks, "r") THEN resetCamera(c6) ELSE c6

----------------------------------------------------------------------------
(* render and drawPlanet (lines 175-225) *)

\* `time += 0.01`, in time units
TimeStep == 1

\* one step of a render() call
Step(op, name, val) == [op |-> op, name |-> name, val |-> val]

\* the arguments of the five drawPlanet calls of lines 218-222
\* (Sun, Mercury, Venus, Earth, Mars)
Planets ==
    << [distance |-> 0, size |-> 25, color |-> <<10, 10, 0, 10>>,
        orbitSpeed |-> 0, rotationSpeed |-> 0],
       [distance |-> 5, size |-> 4, color |-> <<7, 7, 7, 10>>,
        orbitSpeed |-> 12, rotationSpeed |-> 30],
       [distance |-> 7, size |-> 6, color |-> <<9, 7, 3, 10>>,
        orbitSpeed |-> 10, rotationSpeed |-> 20],
       [distance |-> 9, size |-> 7, color |-> <<2, 6, 10, 10>>,
        orbitSpeed |-> 8, rotationSpeed |-> 20],
       [distance |-> 11, size |-> 5, color |-> <<10, 3, 3, 10>>,
        orbitSpeed |-> 7, rotationSpeed |-> 20] >>

\* lines 176-180: the model matrix, as the calls that build it
ModelMatrix(t, p) ==
    << <<"rotateY", t * p.orbitSpeed>>,
       <<"translate", <<p.distance, 0, 0>> >>,
       <<"rotateY", t * p.rotationSpeed>>,
       <<"scale", <<p.size, p.size, p.size>> >> >>

\* lines 207-210: the view matrix, as the calls that build it
ViewMatrix(c) ==
    << <<"rotateX", c.pitch>>,
       <<"rotateY", c.yaw>>,
       <<"translate", <<-c.x, -c.y, -c.z>> >> >>

\* drawPlanet: the steps it adds, reading the globals time and sphere
drawPlanet(t, indexCount, p, viewMatrix) ==
    << Step("uniformMatrix4fv", "uModelMatrix", ModelMatrix(t, p)),
       Step("uniformMatrix4fv", "uViewMatrix", viewMatrix),
       Step("uniformMatrix4fv", "uProjectionMatrix", "projectionMatrix"),
       Step("uniform4fv", "uColor", p.color),
       Step("drawElements", "TRIANGLES", indexCount) >>

\* the five calls in the reverse order
DrawAllReversed(t, indexCount, viewMatrix) ==
    drawPlanet(t, indexCount, Planets[5], viewMatrix)
    \o drawPlanet(t, indexCount, Planets[4], viewMatrix)
    \o drawPlanet(t, indexCount, Planets[3], viewMatrix)
    \o drawPlanet(t, indexCount, Planets[2], viewMatrix)
    \o drawPlanet(t, indexCount, Planets[1], viewMatrix)

\* lines 218-222
DrawAll(t, indexCount, viewMatrix) ==
    drawPlanet(t, indexCount, Planets[1], viewMatrix)
    \o drawPlanet(t, indexCount, Planets[2], viewMatrix)
    \o drawPlanet(t, indexCount, Planets[3], viewMatrix)
    \o drawPlanet(t, indexCount, Planets[4], viewMatrix)
    \o drawPlanet(t, indexCount, Planets[5], viewMatrix)

\* viewPos taken from the camera as it was before the keys were applied
ViewPosStale(before, after) == <<before.x, before.y, before.z>>

\* line 213: viewPos = [camera.x, camera.y, camera.z], read after the update
ViewPos(before, after) == <<after.x, after.y, after.z>>

\* render(): the new time, camera and number of pending callbacks, and the steps
render(t, c, ks, pending, indexCount) ==
    LET t1 == t + TimeStep
        c1 == CameraUpdate(c, ks)
        view == ViewMatrix(c1)
    IN  [time |-> t1,
         camera |-> c1,
         scheduled |-> pending + 1,
         frame |->
            << Step("time", "time", t1),
               Step("clearColor", "", <<0, 0, 0, 1>>),
               Step("clear", "", {"COLOR_BUFFER_BIT", "DEPTH_BUFFER_BIT"}),
               Step("camera", "camera", c1),
               Step("view", "view", view),
               Step("uniform3fv", "uLightPos", <<0, 0, 0>>),
               Step("uniform3fv", "uViewPos", ViewPos(c, c1)) >>
            \o DrawAll(t1, indexCount, view)
            \o << Step("requestAnimationFrame", "render", 0) >>]

----------------------------------------------------------------------------
(* The start-up script (lines 4-173 and 226) *)

\* What canvas.getContext("webgl") returns: null, a WebGL 1 context (which
\* has no createVertexArray), or a context on which the host also provides
\* the vertex array functions
Contexts == {"none", "webgl", "webgl_vao"}

\* The results the host gives for the two compilations and the link; a
\* program links only if both shaders compiled
Hosts ==
    {h \in [gl : Contexts, vsOk : BOOLEAN, fsOk : BOOLEAN, linkOk : BOOLEAN] :
        /\ h.linkOk => (h.vsOk /\ h.fsOk)
        /\ h.gl = "none" => (h.vsOk /\ h.fsOk /\ h.linkOk)}

\* a use of gl that never throws
NeverThrows(gl) == FALSE

\* gl.f(...) with gl null throws a TypeError
NullContext(gl) == gl = "none"

\* gl.createVertexArray is undefined on a WebGL 1 context: calling it throws
NoVertexArrays(gl) == gl # "webgl_vao"

\* compileShader: the gl calls it makes
CompileCalls(ok) ==
    <<"createShader", "shaderSource", "compileShader", "getShaderParameter">>
    \o (IF ok THEN <<>> ELSE <<"getShaderInfoLog">>)

\* compileShader: what it logs
CompileLog(type, ok) ==
    IF ok THEN <<>> ELSE << <<"error", "shaderInfoLog", type>> >>

LinkCalls ==
    <<"createProgram", "attachShader", "attachShader", "linkProgram",
      "useProgram", "getAttribLocation", "getAttribLocation",
      "getUniformLocation", "getUniformLocation", "getUniformLocation",
      "getUniformLocation", "getUniformLocation", "getUniformLocation">>

BufferCalls ==
    <<"createVertexArray", "bindVertexArray",
      "createBuffer", "bindBuffer", "bufferData", "enableVertexAttribArray",
      "vertexAttribPointer",
      "createBuffer", "bindBuffer", "bufferData", "enableVertexAttribArray",
      "vertexAttribPointer",
      "createBuffer", "bindBuffer", "bufferData">>

\* lines 4-8
AcquireContext ==
    /\ pc = "start"
    /\ alerts' = IF host.gl = "none" THEN alerts + 1 ELSE alerts
    /\ pc' = "shaders"
    /\ UNCHANGED <<host, console, setupOps, sphere, listening, camera, keys,
                   time, scheduled, frame, call, mesh>>

\* lines 59-69: gl.createShader on a null gl throws, which ends the script
CompileShaders ==
    /\ pc = "shaders"
    /\ IF NullContext(host.gl)
       THEN /\ pc' = "aborted"
            /\ UNCHANGED <<console, setupOps>>
       ELSE /\ pc' = "program"
            /\ setupOps' = setupOps \o CompileCalls(host.vsOk)
                                    \o CompileCalls(host.fsOk)
            /\ console' = console \o CompileLog("VERTEX_SHADER", host.vsOk)
                                  \o CompileLog("FRAGMENT_SHADER", host.fsOk)
    /\ UNCHANGED <<host, alerts, sphere, listening, camera, keys, time,
                   scheduled, frame, call, mesh>>

\* lines 72-88: the link status is not read
LinkProgram ==
    /\ pc = "program"
    /\ setupOps' = setupOps \o LinkCalls
    /\ pc' = "geometry"
    /\ UNCHANGED <<host, alerts, console, sphere, listening, camera, keys,
                   time, scheduled, frame, call, mesh>>

\* line 128: the call createSphere(1, 24)
BuildSphere ==
    /\ pc = "geometry"
    /\ call' = Call("script", 1, Segments)
    /\ mesh' = EmptyMesh
    /\ pc' = "vertices"
    /\ UNCHANGED appVars

\* line 128: `const sphere =`; of the three arrays only the lengths are kept,
\* the script passes them to the context and reads sphere.indices.length
StoreSphere ==
    /\ pc = "returned"
    /\ call.caller = "script"
    /\ sphere' = SphereLengths(mesh)
    /\ mesh' = EmptyMesh
    /\ call' = IdleCall
    /\ pc' = "buffers"
    /\ UNCHANGED <<host, alerts, console, setupOps, listening, camera, keys,
                   time, scheduled, frame>>

\* lines 131-148: gl.createVertexArray() is the first call
CreateBuffers ==
    /\ pc = "buffers"
    /\ IF NoVertexArrays(host.gl)
       THEN /\ pc' = "aborted"
            /\ UNCHANGED setupOps
       ELSE /\ pc' = "scene"
            /\ setupOps' = setupOps \o BufferCalls
    /\ UNCHANGED <<host, alerts, console, sphere, listening, camera, keys,
                   time, scheduled, frame, call, mesh>>

\* lines 151-173: camera, keys, the three listeners, projection, time, depth test
SetupScene ==
    /\ pc = "scene"
    /\ camera' = InitialCamera
    /\ keys' = NoKeys
    /\ listening' = TRUE
    /\ time' = 0
    /\ setupOps' = setupOps \o <<"enable">>
    /\ pc' = "first_render"
    /\ UNCHANGED <<host, alerts, console, sphere, scheduled, frame, call, mesh>>

\* the assignment of render()'s results
Rendered(r) ==
    /\ time' = r.time
    /\ camera' = r.camera
    /\ scheduled' = r.scheduled
    /\ frame' = r.frame

\* line 226: the first call of render()
FirstRender ==
    /\ pc = "first_render"
    /\ Rendered(render(time, camera, keys, scheduled, sphere.indices))
    /\ pc' = "running"
    /\ UNCHANGED <<host, alerts, console, setupOps, sphere, listening, keys,
                   call, mesh>>

Startup ==
    \/ AcquireContext
    \/ CompileShaders
    \/ LinkProgram
    \/ BuildSphere
    \/ VertexIteration
    \/ VertexLoopExit
    \/ IndexIteration
    \/ SphereReturn
    \/ StoreSphere
    \/ CreateBuffers
    \/ SetupScene
    \/ FirstRender

----------------------------------------------------------------------------
(* The callbacks, run by the host once the script has ended *)

KeyDown(k) ==
    /\ pc = "running"
    /\ listening
    /\ keys' = KeyDownHandler(keys, k)
    /\ UNCHANGED <<host, pc, alerts, console, setupOps, sphere, listening,
                   camera, time, scheduled, frame, call, mesh>>

KeyUp(k) ==
    /\ pc = "running"
    /\ listening
    /\ keys' = KeyUpHandler(keys, k)
    /\ UNCHANGED <<host, pc, alerts, console, setupOps, sphere, listening,
                   camera, time, scheduled, frame, call, mesh>>

MouseMove(buttons, dx, dy) ==
    /\ pc = "running"
    /\ listening
    /\ Abs(MouseMoveHandler(camera, buttons, dx, dy).yaw) <= MaxLook * 1000
    /\ camera' = MouseMoveHandler(camera, buttons, dx, dy)
    /\ UNCHANGED <<host, pc, alerts, console, setupOps, sphere, listening,
                   keys, time, scheduled, frame, call, mesh>>

\* the requestAnimationFrame callback: one pending callback is run
Tick ==
    /\ pc = "running"
    /\ scheduled > 0
    /\ time < MaxTime
    /\ Rendered(render(time, camera, keys, scheduled - 1, sphere.indices))
    /\ UNCHANGED <<host, pc, alerts, console, setupOps, sphere, listening,
                   keys, call, mesh>>

----------------------------------------------------------------------------
(* Specifications *)

\* the state when the script starts; camera, keys and time are declared
\* later in the script and not readable before
Init ==
    /\ host \in Hosts
    /\ pc = "start"
    /\ alerts = 0
    /\ console = <<>>
    /\ setupOps = <<>>
    /\ sphere = SphereLengths(EmptyMesh)
    /\ listening = FALSE
    /\ camera = InitialCamera
    /\ keys = NoKeys
    /\ time = 0
    /\ scheduled = 0
    /\ frame = <<>>
    /\ call = IdleCall
    /\ mesh = EmptyMesh

Next ==
    \/ Startup
    \/ \E k \in MainKeyIds : KeyDown(k)
    \/ \E k \in MainKeyIds : KeyUp(k)
    \/ \E b \in ButtonMasks, d \in MouseDeltas : MouseMove(b, d[1], d[2])
    \/ Tick

\* the whole program, with a few keys and the mouse
Spec == Init /\ [][Next]_vars

NextKeys ==
    \/ Startup
    \/ \E k \in AllKeyIds : KeyDown(k)
    \/ \E k \in AllKeyIds : KeyUp(k)
    \/ Tick

\* a host on which the start-up succeeds
InitKeys ==
    /\ Init
    /\ host.gl = "webgl_vao"
    /\ host.linkOk

\* the program with every key of the camera and no mouse, on such a host
SpecKeys == InitKeys /\ [][NextKeys]_vars

InitSphere ==
    /\ host \in {h \in Hosts : h.gl = "none"}
    /\ pc = "vertices"
    /\ alerts = 0
    /\ console = <<>>
    /\ setupOps = <<>>
    /\ sphere = SphereLengths(EmptyMesh)
    /\ listening = FALSE
    /\ camera = InitialCamera
    /\ keys = NoKeys
    /\ time = 0
    /\ scheduled = 0
    /\ frame = <<>>
    /\ \E r \in Radii, n \in 1..MaxSegments :
          call = Call("other", r, n)
    /\ mesh = EmptyMesh

NextSphere ==
    \/ VertexIteration
    \/ VertexLoopExit
    \/ IndexIteration
    \/ SphereReturn

\* createSphere alone, on small arguments
SpecSphere == InitSphere /\ [][NextSphere]_vars

----------------------------------------------------------------------------
(* Properties *)

\* a step that is a call of render(): time changes in render() only
RenderStep == time' # time

Position(c) == <<c.x, c.y, c.z>>

\* C1: for every segments n >= 1 and every radius, the mesh createSphere
\* returns has (n+1)^2 vertices, three position and three normal components
\* each, 6*n^2 indices, and every index is below (n+1)^2.
C1_SphereCounts ==
    pc = "returned" =>
        LET n == call.segments
            vertices == (n + 1) * (n + 1)
        IN  /\ n >= 1
            /\ Len(mesh.positions) = 3 * vertices
            /\ Len(mesh.normals) = Len(mesh.positions)
            /\ Len(mesh.indices) = 6 * n * n
            /\ \A i \in 1..Len(mesh.indices) :
                  mesh.indices[i] >= 0 /\ mesh.indices[i] < vertices

C1_Witness ==
    /\ pc = "returned"
    /\ call.caller = "other"
    /\ call.segments >= 3
    /\ call.radius > 1
    /\ Len(mesh.indices) = 6 * call.segments * call.segments

\* C2: a call of render() made while keys['r'] is set ends with the camera at
\* x 0, y 2, z 15, yaw 0 and pitch 0, whatever else is pressed and whatever
\* key events, mouse events and frames came before.
C2_ResetOnTick ==
    [][(RenderStep /\ keys["r"]) =>
          camera' = [x |-> 0, y |-> 10000, z |-> 75000, pitch |-> 0, yaw |-> 0]]_vars

C2_Witness ==
    /\ pc = "running"
    /\ time = MaxTime
    /\ keys["r"] /\ keys["w"] /\ keys["q"]
    /\ frame[4].val = InitialCamera
    /\ camera = InitialCamera

\* the per-key effects of C3 at yaw 0, summed over the keys pressed
Units(b) == IF b THEN 1000 ELSE 0
SumX(ks) == Units(ks["d"]) - Units(ks["a"])
SumY(ks) == Units(ks["q"]) - Units(ks["e"])
SumZ(ks) == Units(ks["s"]) - Units(ks["w"])

PrimaryHeld(buttons) == buttons % 2 = 1

\* C4: a mousemove event with the primary button held adds movementX*0.002
\* to yaw and subtracts movementY*0.002 from pitch, without clamping; one
\* with the primary button not held changes nothing; the position never
\* changes.
C4_PrimaryDragRotates ==
    (pc = "running" /\ listening) =>
        \A b \in ButtonMasks, d \in MouseDeltas :
            LET c == MouseMoveHandler(camera, b, d[1], d[2])
            IN  /\ Position(c) = Position(camera)
                /\ PrimaryHeld(b) =>
                      (c.yaw = camera.yaw + d[1] /\ c.pitch = camera.pitch - d[2])
                /\ ~PrimaryHeld(b) => c = camera

\* the names of the steps of a frame
Ops(f) == [i \in 1..Len(f) |-> f[i].op]

IsMainStep(s) ==
    s.op \in {"time", "clear", "camera", "view", "uniform3fv", "drawElements",
              "requestAnimationFrame"}

IsModelUniform(s) == s.op = "uniformMatrix4fv" /\ s.name = "uModelMatrix"

IsViewUniform(s) == s.op = "uniformMatrix4fv" /\ s.name = "uViewMatrix"

IsVectorUniform(s) == s.op = "uniform3fv"

IsModelOrDraw(s) == IsModelUniform(s) \/ s.op = "drawElements"

\* the orbit distance in a model matrix: the x of its translation
Distance(model) == model[2][2][1]

\* C5: every call of render() adds 0.01 to time once, then clears the colour
\* and depth buffers, then updates the camera, then builds the view, then
\* uploads uLightPos and uViewPos, then draws five times, each draw after
\* its own model matrix, at distances 0, 5, 7, 9, 11 in this order, and
\* then requests the next frame.
C5_FrameOrder ==
    /\ [](frame # <<>> =>
            /\ Ops(SelectSeq(frame, IsMainStep)) =
                  <<"time", "clear", "camera", "view", "uniform3fv",
                    "uniform3fv", "drawElements", "drawElements",
                    "drawElements", "drawElements", "drawElements",
                    "requestAnimationFrame">>
            /\ frame[1].val = time
            /\ frame[2].op = "clearColor"
            /\ frame[3].val = {"COLOR_BUFFER_BIT", "DEPTH_BUFFER_BIT"}
            /\ LET u == SelectSeq(frame, IsVectorUniform)
               IN  <<u[1].name, u[2].name>> = <<"uLightPos", "uViewPos">>
            /\ Ops(SelectSeq(frame, IsModelOrDraw)) =
                  <<"uniformMatrix4fv", "drawElements",
                    "uniformMatrix4fv", "drawElements",
                    "uniformMatrix4fv", "drawElements",
                    "uniformMatrix4fv", "drawElements",
                    "uniformMatrix4fv", "drawElements">>
            /\ LET m == SelectSeq(frame, IsModelUniform)
               IN  [i \in 1..Len(m) |-> Distance(m[i].val)] = <<0, 5, 7, 9, 11>>)
    /\ [][RenderStep => (time' = time + 1 /\ frame'[1].val = time')]_vars

C5_Witness ==
    /\ pc = "running"
    /\ time = MaxTime
    /\ Len(frame) = 33
    /\ frame[32].op = "drawElements"
    /\ frame[32].val = 3456
    /\ frame[33].op = "requestAnimationFrame"

\* C6: when getContext returns null the user gets one alert, no gl call is
\* ever issued (no shader, buffer, clear or draw), render() never runs and
\* no frame is ever requested: the script ends at its first use of gl.
C6_NoContextIsFatal ==
    host.gl = "none" =>
        /\ pc \in {"start", "shaders", "aborted"}
        /\ pc # "start" => alerts = 1
        /\ setupOps = <<>>
        /\ frame = <<>>
        /\ time = 0
        /\ scheduled = 0
        /\ ~listening

C6_Witness ==
    /\ host.gl = "none"
    /\ pc = "aborted"
    /\ alerts = 1
    /\ setupOps = <<>>

\* the script is past gl.linkProgram
PastLink == pc \notin {"start", "shaders", "program"}

Logged(what) == \E i \in 1..Len(console) : console[i][3] = what

\* C7: every shader compile failure and every program link failure has its
\* entry in the console, and neither ends the script.
C7_FailuresLoggedNotFatal ==
    (host.gl # "none" /\ PastLink) =>
        /\ ~host.vsOk => Logged("VERTEX_SHADER")
        /\ ~host.fsOk => Logged("FRAGMENT_SHADER")
        /\ ~host.linkOk => Logged("PROGRAM")
        /\ host.gl = "webgl_vao" => pc # "aborted"

\* C8: with a graphics context the script reaches its first render() call:
\* it never ends early.
C8_StartupReachesRender ==
    host.gl # "none" => pc # "aborted"

MoveKeys == {"w", "s", "a", "d", "q", "e"}

Opposite(k) ==
    CASE k = "w" -> "s"
      [] k = "s" -> "w"
      [] k = "a" -> "d"
      [] k = "d" -> "a"
      [] k = "q" -> "e"
      [] k = "e" -> "q"

C10_OneCameraPerFrame ==
    /\ [](frame # <<>> =>
            LET t == frame[1].val
                c == frame[4].val
                models == SelectSeq(frame, IsModelUniform)
                views == SelectSeq(frame, IsViewUniform)
                vectors == SelectSeq(frame, IsVectorUniform)
            IN  /\ frame[5].val = ViewMatrix(c)
                /\ vectors[2].val = Position(c)
                /\ Len(views) = 5
                /\ \A i \in 1..Len(views) : views[i].val = frame[5].val
                /\ Len(models) = 5
                /\ \A i \in 1..Len(models) :
                      models[i].val = ModelMatrix(t, Planets[i]))
    /\ [][RenderStep =>
            /\ frame'[4].val = CameraUpdate(camera, keys)
            /\ camera' = frame'[4].val
            /\ frame'[1].val = time']_vars

\* a frame drawn after a turn of the camera and a move
C10_Witness ==
    /\ pc = "running"
    /\ time >= 2
    /\ frame[4].val.yaw # 0
    /\ Position(frame[4].val) # Position(InitialCamera)
    /\ frame[7].val = Position(frame[4].val)
    /\ camera = frame[4].val

====
